---- MODULE Spec2Model ----
(***************************************************************************)
(* A model of the Neon Pi browser client, frontend/js/app.js: the          *)
(* WebSocket connection with its reconnect backoff, the dispatch of        *)
(* inbound frames on message.type, and the handlers that keep the          *)
(* application state (assistant state, conversation history, now playing,  *)
(* audio playback).  The browser is single-threaded: every handler runs to *)
(* completion, so each handler is one atomic action.                       *)
(***************************************************************************)
EXTENDS Integers, Sequences, FiniteSets, TLC

\* ------------------------------------------------------------------ bounds
\* Inbound frames delivered to ws.onmessage over the whole run.
MaxFrames == 2
\* The same, in a run that keeps the connection open (SessionSpec).
MaxSessionFrames == 3
\* Calls of ws.send over the whole run.
MaxWrites == 1
\* WebSocket objects that can be alive at the same time.
MaxSock == 2

\* --------------------------------------------------------- program constants
maxReconnectAttempts == 10
BackoffBase == 1000
BackoffCap == 30000
ScaleCapE4 == 13000
HistoryShown == 10

\* JavaScript's null, where a string could stand instead.
Null == "<null>"

VARIABLES
    \* --- module-level connection state, app.js 63-65 and state.connected
    ws,                 \* the slot of the current WebSocket, 0 for null
    sockets,            \* slot -> readyState, "FREE" for no object
    reconnectAttempts,
    connected,          \* state.connected
    connectionStatus,   \* the label of elements.connectionStatus
    reconnectTimers,    \* delays of the pending setTimeout(connectWebSocket)
    \* --- application state, app.js 9-15, and the elements the handlers write
    spotifyConnected,
    currentState,
    statusText,
    transcriptVisible,
    orbScaleE4,         \* the orb's scale, in 1/10000
    conversationHistory,
    historyList,        \* what renderHistory last rendered
    userText,
    neonText,
    nowPlaying,
    trackName,
    progressFill,       \* <<progress_ms * 100, duration_ms>>, the width as a fraction
    errorTimers,        \* pending setTimeout(() => updateState('idle'), 3000)
    \* --- audio playback
    objectUrls,         \* every URL.createObjectURL result: bytes, revoked
    audioSrc,           \* elements.audioPlayer.src, an index of objectUrls, 0 unset
    onended,            \* the url the installed onended handler revokes, 0 unset
    playback,           \* "none", "starting", "playing", "ended", "failed"
    \* --- what the environment has done (observation only)
    lastEvent,          \* the handler that ran last and its input; an open
                        \* event with the close events before it, a close
                        \* event with the delay it scheduled (0 for none) and,
                        \* right after an open event, that event's count; a
                        \* frame or an error timer with the type of the frame
                        \* delivered just before it
    nFrames,            \* inbound frames delivered so far
    writes,             \* ws.send calls performed so far
    openCalls,          \* calls of connectWebSocket from outside the program so far
    closesSinceOpen,    \* close events since the last open event (or the start)
    delayLog            \* delays scheduled since the last open event (or the start)

connVars == <<ws, sockets, reconnectAttempts, connected, connectionStatus,
              reconnectTimers>>
appVars == <<spotifyConnected, currentState, statusText, transcriptVisible,
             orbScaleE4, conversationHistory, historyList, userText, neonText,
             nowPlaying, trackName, progressFill, errorTimers>>
audioVars == <<objectUrls, audioSrc, onended, playback>>
obsVars == <<lastEvent, nFrames, writes, openCalls, closesSinceOpen, delayLog>>
vars == <<connVars, appVars, audioVars, obsVars>>

Slots == 1..MaxSock
ReadyStates == {"CONNECTING", "OPEN", "CLOSING", "CLOSED"}
AssistantStates == {"idle", "listening", "processing", "thinking", "speaking"}

Min(a, b) == IF a <= b THEN a ELSE b

RECURSIVE Pow2(_)
Pow2(n) == IF n = 0 THEN 1 ELSE 2 * Pow2(n - 1)

\* ws.readyState; "NULL" stands for ws === null, where the guard's first
\* conjunct already fails.
ReadyState == IF ws = 0 THEN "NULL" ELSE sockets[ws]

\* ------------------------------------------------------ connection manager

\* new WebSocket(wsUrl) and the assignment to ws: the object ws pointed to is
\* unreferenced afterwards, and is dropped when it has closed (a closed socket
\* fires no further event).  The new object takes the lowest free slot.
ReleasedSockets ==
    [i \in Slots |-> IF i = ws /\ sockets[i] = "CLOSED" THEN "FREE" ELSE sockets[i]]

NewSlot == CHOOSE i \in Slots :
              /\ ReleasedSockets[i] = "FREE"
              /\ \A j \in Slots : ReleasedSockets[j] = "FREE" => i <= j

connectWebSocket ==
    /\ \E i \in Slots : ReleasedSockets[i] = "FREE"
    /\ ws' = NewSlot
    /\ sockets' = [ReleasedSockets EXCEPT ![NewSlot] = "CONNECTING"]

\* The delay computed from the counter before its increment.
ReconnectDelayBeforeIncrement(n) == Min(BackoffBase * Pow2(n - 1), BackoffCap)

\* The delay of the reconnect scheduled when the counter has just become n.
ReconnectDelay(n) == Min(BackoffBase * Pow2(n), BackoffCap)

\* The readyState of socket i after it closed: the object is kept only while
\* ws points to it.
ClosedSockets(i) ==
    [sockets EXCEPT ![i] = IF i = ws THEN "CLOSED" ELSE "FREE"]


\* An open handler that forgets to reset the counter.
onopenKeepsCounter ==
    /\ connected' = TRUE
    /\ reconnectAttempts' = reconnectAttempts
    /\ connectionStatus' = "Connected"

\* ws.onopen
onopen ==
    /\ connected' = TRUE
    /\ reconnectAttempts' = 0
    /\ connectionStatus' = "Connected"

\* The test with an off-by-one bound.
ShouldReconnectOnceMore == reconnectAttempts <= maxReconnectAttempts

\* The test of ws.onclose that decides whether a reconnect is scheduled.
ShouldReconnect == reconnectAttempts < maxReconnectAttempts

\* A close handler that counts the close event even when it schedules nothing.
oncloseCountsEveryClose ==
    /\ connected' = FALSE
    /\ connectionStatus' = "Reconnecting..."
    /\ reconnectAttempts' = reconnectAttempts + 1
    /\ reconnectTimers' =
          IF ShouldReconnect
             THEN Append(reconnectTimers, ReconnectDelay(reconnectAttempts + 1))
             ELSE reconnectTimers

\* A close handler that computes the delay first and increments afterwards.
oncloseDelayFirst ==
    /\ connected' = FALSE
    /\ connectionStatus' = "Reconnecting..."
    /\ IF ShouldReconnect
          THEN /\ reconnectTimers' =
                     Append(reconnectTimers, ReconnectDelay(reconnectAttempts))
               /\ reconnectAttempts' = reconnectAttempts + 1
          ELSE UNCHANGED <<reconnectAttempts, reconnectTimers>>

\* ws.onclose: the counter is incremented first, the delay is computed from
\* the incremented value.
onclose ==
    /\ connected' = FALSE
    /\ connectionStatus' = "Reconnecting..."
    /\ IF ShouldReconnect
          THEN /\ reconnectAttempts' = reconnectAttempts + 1
               /\ reconnectTimers' =
                     Append(reconnectTimers, ReconnectDelay(reconnectAttempts + 1))
          ELSE UNCHANGED <<reconnectAttempts, reconnectTimers>>

\* The delay onclose has just scheduled, 0 when it scheduled nothing.
ScheduledDelay ==
    IF Len(reconnectTimers') > Len(reconnectTimers)
       THEN reconnectTimers'[Len(reconnectTimers')]
       ELSE 0

\* init(): the listeners are installed and the first socket is created.
InitApp ==
    /\ lastEvent.kind = "load"
    /\ connectWebSocket
    /\ lastEvent' = [kind |-> "init"]
    /\ UNCHANGED <<reconnectAttempts, connected, connectionStatus, reconnectTimers>>
    /\ UNCHANGED <<appVars, audioVars, nFrames, writes, openCalls, closesSinceOpen, delayLog>>

\* An open event whose handler also puts the assistant back to idle.
TransportOpenResetsState ==
    \E i \in Slots :
        /\ sockets[i] = "CONNECTING"
        /\ sockets' = [sockets EXCEPT ![i] = "OPEN"]
        /\ onopen
        /\ currentState' = "idle"
        /\ lastEvent' = [kind |-> "open", after |-> closesSinceOpen]
        /\ closesSinceOpen' = 0
        /\ delayLog' = <<>>
        /\ UNCHANGED <<spotifyConnected, statusText, transcriptVisible,
                       orbScaleE4, conversationHistory, historyList, userText,
                       neonText, nowPlaying, trackName, progressFill,
                       errorTimers>>
        /\ UNCHANGED <<ws, reconnectTimers, audioVars, nFrames, writes, openCalls>>

\* The open event of socket i.
TransportOpen ==
    \E i \in Slots :
        /\ sockets[i] = "CONNECTING"
        /\ sockets' = [sockets EXCEPT ![i] = "OPEN"]
        /\ onopen
        /\ lastEvent' = [kind |-> "open", after |-> closesSinceOpen]
        /\ closesSinceOpen' = 0
        /\ delayLog' = <<>>
        /\ UNCHANGED <<ws, reconnectTimers, appVars, audioVars, nFrames, writes, openCalls>>

\* The server starts the closing handshake of socket i: no handler runs.
TransportClosing ==
    \E i \in Slots :
        /\ sockets[i] = "OPEN"
        /\ sockets' = [sockets EXCEPT ![i] = "CLOSING"]
        /\ lastEvent' = [kind |-> "closing"]
        /\ UNCHANGED <<ws, reconnectAttempts, connected, connectionStatus,
                       reconnectTimers>>
        /\ UNCHANGED <<appVars, audioVars, nFrames, writes, openCalls, closesSinceOpen, delayLog>>

\* The close event of socket i: a failed attempt or a lost connection.
TransportClose ==
    \E i \in Slots :
        /\ sockets[i] \in {"CONNECTING", "OPEN", "CLOSING"}
        /\ sockets' = ClosedSockets(i)
        /\ onclose
        /\ lastEvent' = [kind |-> "close", delay |-> ScheduledDelay,
                          openedAfter |-> IF lastEvent.kind = "open"
                                             THEN lastEvent.after ELSE -1]
        /\ closesSinceOpen' = closesSinceOpen + 1
        /\ delayLog' = IF ScheduledDelay # 0
                          THEN Append(delayLog, ScheduledDelay)
                          ELSE delayLog
        /\ UNCHANGED <<ws, appVars, audioVars, nFrames, writes, openCalls>>

\* An error handler that schedules a reconnect of its own.
TransportErrorReconnects ==
    \E i \in Slots :
        /\ sockets[i] \in {"CONNECTING", "OPEN", "CLOSING"}
        /\ reconnectTimers' = Append(reconnectTimers, BackoffBase)
        /\ lastEvent' = [kind |-> "error"]
        /\ UNCHANGED <<ws, sockets, reconnectAttempts, connected, connectionStatus>>
        /\ UNCHANGED <<appVars, audioVars, nFrames, writes, openCalls,
                       closesSinceOpen, delayLog>>

\* ws.onerror: the error is logged.
TransportError ==
    \E i \in Slots :
        /\ sockets[i] \in {"CONNECTING", "OPEN", "CLOSING"}
        /\ lastEvent' = [kind |-> "error"]
        /\ UNCHANGED <<connVars, appVars, audioVars, nFrames, writes, openCalls,
                       closesSinceOpen, delayLog>>

\* A pending setTimeout(connectWebSocket, delay) fires.
RemoveAt(s, k) == [j \in 1..(Len(s) - 1) |-> IF j < k THEN s[j] ELSE s[j + 1]]

\* A timer set with setInterval: it fires and stays pending.
ReconnectTimerRepeats ==
    \E k \in 1..Len(reconnectTimers) :
        /\ reconnectTimers' = reconnectTimers
        /\ connectWebSocket
        /\ lastEvent' = [kind |-> "reconnect"]
        /\ UNCHANGED <<reconnectAttempts, connected, connectionStatus>>
        /\ UNCHANGED <<appVars, audioVars, nFrames, writes, openCalls,
                       closesSinceOpen, delayLog>>

\* A timer that is cleared before it fires: no socket is created.
ReconnectTimerCleared ==
    \E k \in 1..Len(reconnectTimers) :
        /\ reconnectTimers' = RemoveAt(reconnectTimers, k)
        /\ lastEvent' = [kind |-> "reconnect"]
        /\ UNCHANGED <<ws, sockets, reconnectAttempts, connected, connectionStatus>>
        /\ UNCHANGED <<appVars, audioVars, nFrames, writes, openCalls,
                       closesSinceOpen, delayLog>>

ReconnectTimerFires ==
    \E k \in 1..Len(reconnectTimers) :
        /\ reconnectTimers' = RemoveAt(reconnectTimers, k)
        /\ connectWebSocket
        /\ lastEvent' = [kind |-> "reconnect"]
        /\ UNCHANGED <<reconnectAttempts, connected, connectionStatus>>
        /\ UNCHANGED <<appVars, audioVars, nFrames, writes, openCalls, closesSinceOpen, delayLog>>

\* A guard that tests the socket and not its readyState.
CanSendWithoutReadyState == ws # 0

\* sendMessage(message), called by the click and the Space key listeners.
CanSend == ws # 0 /\ ReadyState = "OPEN"

sendMessage ==
    writes' = IF CanSend THEN writes + 1 ELSE writes

SendMessage ==
    /\ lastEvent.kind # "load"
    /\ CanSend => writes < MaxWrites
    /\ sendMessage
    /\ lastEvent' = [kind |-> "send", readyState |-> ReadyState]
    /\ UNCHANGED <<connVars, appVars, audioVars, nFrames, openCalls, closesSinceOpen, delayLog>>


\* ------------------------------------------------------------ inbound frames

\* The states the server sends in a state_update: the AssistantState enum of
\* the protocol.
StatesSent == AssistantStates

Texts == {"Hello", "Hi there"}
Levels == {500, 2000}

\* message.data of a state_update: with a level or without.
NoData == [hasLevel |-> FALSE]
LevelData(n) == [hasLevel |-> TRUE, level |-> n]

\* message.data of a spotify message: null, a track part-way, a track whose
\* duration is not known.
NullData == [isNull |-> TRUE]
TrackA == [isNull |-> FALSE, is_podcast |-> FALSE, track_name |-> "Song",
           episode_name |-> "", progress_ms |-> 50000, duration_ms |-> 200000]
TrackB == [isNull |-> FALSE, is_podcast |-> TRUE, track_name |-> "",
           episode_name |-> "", progress_ms |-> 0, duration_ms |-> 0]

\* message.data of an audio message, one character per element: "4d5033", a
\* payload with a pair that is no hex number, the empty string.
HexInputs == { <<"4", "d", "5", "0", "3", "3">>, <<"z", "z", "4", "d">>, <<>> }

Messages ==
    {[type |-> "connected", spotify_authenticated |-> b] : b \in BOOLEAN}
    \cup {[type |-> "state_update", state |-> s, data |-> NoData] :
             s \in StatesSent}
    \cup {[type |-> "state_update", state |-> "listening", data |-> LevelData(n)] :
             n \in Levels}
    \cup {[type |-> "transcript", text |-> t, is_final |-> f] :
             t \in Texts, f \in BOOLEAN}
    \cup {[type |-> "response", text |-> t] : t \in Texts}
    \cup {[type |-> "spotify", data |-> d] : d \in {NullData, TrackA, TrackB}}
    \cup {[type |-> "audio", data |-> h] : h \in HexInputs}
    \cup {[type |-> "error", message |-> "boom"]}
    \cup {[type |-> "future_feature"]}

\* event.data: text that JSON.parse accepts, with the value it yields, or text
\* it throws on.
Frames ==
    {[wellFormed |-> TRUE, message |-> m] : m \in Messages}
    \cup {[wellFormed |-> FALSE]}

KnownTypes == {"connected", "state_update", "transcript", "response", "spotify",
               "audio", "error"}

\* ------------------------------------------------------------ state updates

\* The status headline the switch of updateState sets for a state; a state
\* with no case leaves the headline as it is.
StatusTextOf(newState) ==
    CASE newState = "idle" -> "Say \"Hey Jarvis\" to wake me up"
      [] newState = "listening" -> "I'm listening..."
      [] newState = "processing" -> "Processing..."
      [] newState = "thinking" -> "Thinking..."
      [] newState = "speaking" -> "Speaking..."
      [] OTHER -> statusText

\* visualizeAudioLevel(level): Math.min(1 + (level / 1000) * 0.2, 1.3), in 1/10000.
\* The scale without its cap.
visualizeAudioLevelUncapped(level) == 10000 + 2 * level

visualizeAudioLevel(level) == Min(10000 + 2 * level, ScaleCapE4)

\* An updateState that stores the class name of the orb as the state.
updateStateStoresClassName(newState, data) ==
    /\ currentState' = "orb " \o newState
    /\ statusText' = StatusTextOf(newState)
    /\ transcriptVisible' = IF newState = "idle" THEN FALSE ELSE transcriptVisible
    /\ orbScaleE4' = IF data.hasLevel THEN visualizeAudioLevel(data.level)
                                      ELSE orbScaleE4

\* An updateState that ignores the new state while an error is on display.
updateStateHeldByError(newState, data) ==
    /\ currentState' = IF errorTimers > 0 THEN currentState ELSE newState
    /\ statusText' = StatusTextOf(newState)
    /\ transcriptVisible' = IF newState = "idle" THEN FALSE ELSE transcriptVisible
    /\ orbScaleE4' = IF data.hasLevel THEN visualizeAudioLevel(data.level)
                                      ELSE orbScaleE4

updateState(newState, data) ==
    /\ currentState' = newState
    /\ statusText' = StatusTextOf(newState)
    /\ transcriptVisible' = IF newState = "idle" THEN FALSE ELSE transcriptVisible
    /\ orbScaleE4' = IF data.hasLevel THEN visualizeAudioLevel(data.level)
                                      ELSE orbScaleE4

\* ------------------------------------------------------ conversation history

Reverse(s) == [j \in 1..Len(s) |-> s[Len(s) + 1 - j]]

\* slice(-HistoryShown)
LastN(s, n) == IF Len(s) <= n THEN s ELSE SubSeq(s, Len(s) - n + 1, Len(s))

\* A renderHistory that cuts with slice(0, 10): the first 10 turns.
renderHistoryFirstTen(history) ==
    Reverse(SubSeq(history, 1, Min(HistoryShown, Len(history))))

\* renderHistory(): the last 10 turns, newest first; nothing for an empty log.
renderHistory(history) == Reverse(LastN(history, HistoryShown))

\* addToHistory(userText, response); the timestamp is left out.
addToHistory(text, response) ==
    /\ conversationHistory' =
          Append(conversationHistory, [user |-> text, response |-> response])
    /\ historyList' = renderHistory(conversationHistory')

\* A response that opens a turn of its own when the last turn has one already.
HistoryWithResponseAppended(history, response) ==
    IF Len(history) > 0 /\ history[Len(history)].response = Null
       THEN [history EXCEPT ![Len(history)].response = response]
       ELSE Append(history, [user |-> "", response |-> response])

\* The log after updateHistoryResponse(response).
HistoryWithResponse(history, response) ==
    IF Len(history) > 0
       THEN [history EXCEPT ![Len(history)].response = response]
       ELSE history

updateHistoryResponse(response) ==
    /\ conversationHistory' = HistoryWithResponse(conversationHistory, response)
    /\ historyList' = IF Len(conversationHistory) > 0
                         THEN renderHistory(conversationHistory')
                         ELSE historyList

\* A showTranscript that logs partial transcripts too.
showTranscriptAlwaysLogs(text, isFinal) ==
    /\ transcriptVisible' = TRUE
    /\ userText' = text
    /\ addToHistory(text, Null)

showTranscript(text, isFinal) ==
    /\ transcriptVisible' = TRUE
    /\ userText' = text
    /\ IF isFinal
          THEN addToHistory(text, Null)
          ELSE UNCHANGED <<conversationHistory, historyList>>

showResponse(text) ==
    /\ neonText' = text
    /\ updateHistoryResponse(text)

\* ------------------------------------------------------------------ spotify

\* The snapshot state.nowPlaying holds after updateNowPlaying(data): the early
\* return for a falsy data comes before the assignment.
NowPlayingAfter(data) == IF data.isNull THEN nowPlaying ELSE data

TrackNameOf(data) ==
    IF data.isNull THEN "Not Playing"
    ELSE IF data.is_podcast
            THEN (IF data.episode_name = "" THEN "Unknown Episode"
                                            ELSE data.episode_name)
            ELSE (IF data.track_name = "" THEN "Unknown Track" ELSE data.track_name)

\* A progress left as a fraction of 1.
ProgressFraction(data) == <<data.progress_ms, data.duration_ms>>

\* (data.progress_ms / data.duration_ms) * 100, as numerator and denominator.
ProgressPercent(data) == <<data.progress_ms * 100, data.duration_ms>>

updateNowPlaying(data) ==
    /\ nowPlaying' = NowPlayingAfter(data)
    /\ trackName' = TrackNameOf(data)
    /\ progressFill' = IF ~data.isNull /\ data.duration_ms > 0
                          THEN ProgressPercent(data)
                          ELSE progressFill


\* ------------------------------------------------------------ audio playback

HexDigits == <<"0", "1", "2", "3", "4", "5", "6", "7", "8", "9",
               "a", "b", "c", "d", "e", "f">>
IsHex(c) == \E k \in 1..16 : HexDigits[k] = c
HexVal(c) == (CHOOSE k \in 1..16 : HexDigits[k] = c) - 1

\* parseInt's NaN.
NaN == -1

\* hexData.match(/.{1,2}/g): the string cut into pairs, the last one possibly
\* a single character; null (here <<>>) for the empty string.
RECURSIVE Chunks(_)
Chunks(hex) ==
    IF Len(hex) = 0 THEN <<>>
    ELSE IF Len(hex) = 1 THEN <<hex>>
    ELSE <<SubSeq(hex, 1, 2)>> \o Chunks(SubSeq(hex, 3, Len(hex)))

\* parseInt(byte, 16) of a chunk of one or two characters: the longest prefix
\* of hex digits, NaN when there is none or after a 0x prefix.
parseInt16(chunk) ==
    IF ~IsHex(chunk[1]) THEN NaN
    ELSE IF Len(chunk) = 1 THEN HexVal(chunk[1])
    ELSE IF chunk[1] = "0" /\ chunk[2] \in {"x", "X"} THEN NaN
    ELSE IF IsHex(chunk[2]) THEN 16 * HexVal(chunk[1]) + HexVal(chunk[2])
    ELSE HexVal(chunk[1])

\* The element new Uint8Array stores for a number: NaN becomes 0.
ToUint8(v) == IF v = NaN THEN 0 ELSE v % 256

\* new Uint8Array(hexData.match(/.{1,2}/g).map(byte => parseInt(byte, 16)))
DecodeHex(hex) == [k \in 1..Len(Chunks(hex)) |-> ToUint8(parseInt16(Chunks(hex)[k]))]

\* hexData.match returns null for the empty string and null.map throws.
DecodeThrows(hex) == Len(hex) = 0

\* playAudio(hexData): the catch of a throwing decode only logs.
playAudio(hexData) ==
    IF DecodeThrows(hexData)
       THEN UNCHANGED audioVars
       ELSE /\ objectUrls' = Append(objectUrls,
                                    [bytes |-> DecodeHex(hexData), revoked |-> FALSE])
            /\ audioSrc' = Len(objectUrls) + 1
            /\ playback' = "starting"
            /\ onended' = Len(objectUrls) + 1

\* ----------------------------------------------------------------- errors

showError(message) ==
    /\ statusText' = "Error"
    /\ errorTimers' = errorTimers + 1

\* ---------------------------------------------------------------- dispatch

\* A default case that reports the unknown type as an error.
ignoreMessageAsError ==
    /\ statusText' = "Error"
    /\ errorTimers' = errorTimers + 1
    /\ UNCHANGED <<spotifyConnected, currentState, transcriptVisible,
                   orbScaleE4, conversationHistory, historyList, userText,
                   neonText, nowPlaying, trackName, progressFill>>
    /\ UNCHANGED audioVars

\* The switch of handleMessage has no default: no case runs.
ignoreMessage == UNCHANGED <<appVars, audioVars>>

handleMessage(message) ==
    CASE message.type = "connected" ->
            /\ spotifyConnected' = message.spotify_authenticated
            /\ UNCHANGED <<currentState, statusText, transcriptVisible, orbScaleE4,
                           conversationHistory, historyList, userText, neonText,
                           nowPlaying, trackName, progressFill, errorTimers>>
            /\ UNCHANGED audioVars
      [] message.type = "state_update" ->
            /\ updateState(message.state, message.data)
            /\ UNCHANGED <<spotifyConnected, conversationHistory, historyList,
                           userText, neonText, nowPlaying, trackName, progressFill,
                           errorTimers>>
            /\ UNCHANGED audioVars
      [] message.type = "transcript" ->
            /\ showTranscript(message.text, message.is_final)
            /\ UNCHANGED <<spotifyConnected, currentState, statusText, orbScaleE4,
                           neonText, nowPlaying, trackName, progressFill, errorTimers>>
            /\ UNCHANGED audioVars
      [] message.type = "response" ->
            /\ showResponse(message.text)
            /\ UNCHANGED <<spotifyConnected, currentState, statusText,
                           transcriptVisible, orbScaleE4, userText, nowPlaying,
                           trackName, progressFill, errorTimers>>
            /\ UNCHANGED audioVars
      [] message.type = "spotify" ->
            /\ updateNowPlaying(message.data)
            /\ UNCHANGED <<spotifyConnected, currentState, statusText,
                           transcriptVisible, orbScaleE4, conversationHistory,
                           historyList, userText, neonText, errorTimers>>
            /\ UNCHANGED audioVars
      [] message.type = "audio" ->
            /\ playAudio(message.data)
            /\ UNCHANGED appVars
      [] message.type = "error" ->
            /\ showError(message.message)
            /\ UNCHANGED <<spotifyConnected, currentState, transcriptVisible,
                           orbScaleE4, conversationHistory, historyList, userText,
                           neonText, nowPlaying, trackName, progressFill>>
            /\ UNCHANGED audioVars
      [] OTHER -> ignoreMessage

\* The type of a frame, for the record of the last event.
FrameType(frame) == IF frame.wellFormed THEN frame.message.type ELSE "<malformed>"

\* The type of the frame the last event delivered, "-" when it delivered none.
PrevFrame == IF lastEvent.kind = "message" THEN FrameType(lastEvent.frame) ELSE "-"

\* A message handler that shows the parse failure as a server error.
onmessageShowsParseError(frame) ==
    IF frame.wellFormed
       THEN handleMessage(frame.message)
       ELSE /\ statusText' = "Error"
            /\ errorTimers' = errorTimers + 1
            /\ UNCHANGED <<spotifyConnected, currentState, transcriptVisible,
                           orbScaleE4, conversationHistory, historyList, userText,
                           neonText, nowPlaying, trackName, progressFill>>
            /\ UNCHANGED audioVars

\* ws.onmessage: JSON.parse throws on text that is no JSON, the catch logs it.
onmessage(frame) ==
    IF frame.wellFormed
       THEN handleMessage(frame.message)
       ELSE UNCHANGED <<appVars, audioVars>>

\* The message event of an open socket that carries one of frames, while fewer
\* than limit frames have come.
DeliverFrom(frames, limit) ==
    \E i \in Slots, frame \in frames :
        /\ sockets[i] = "OPEN"
        /\ nFrames < limit
        /\ onmessage(frame)
        /\ lastEvent' = [kind |-> "message", frame |-> frame, prev |-> PrevFrame]
        /\ nFrames' = nFrames + 1
        /\ UNCHANGED <<connVars, writes, openCalls, closesSinceOpen, delayLog>>

\* The same, for any frame of Frames.
Deliver(limit) == DeliverFrom(Frames, limit)

DeliverFrame == Deliver(MaxFrames)

SessionFrame == Deliver(MaxSessionFrames)

\* The timer of showError fires: updateState('idle'), data defaulting to {}.
ErrorTimerFires ==
    /\ errorTimers > 0
    /\ errorTimers' = errorTimers - 1
    /\ updateState("idle", NoData)
    /\ lastEvent' = [kind |-> "errorTimer", overwrote |-> currentState,
                      prev |-> PrevFrame]
    /\ UNCHANGED <<spotifyConnected, conversationHistory, historyList, userText,
                   neonText, nowPlaying, trackName, progressFill>>
    /\ UNCHANGED <<connVars, audioVars, nFrames, writes, openCalls, closesSinceOpen, delayLog>>

\* The promise of audioPlayer.play() resolves: logged.
PlayStarts ==
    /\ playback = "starting"
    /\ playback' = "playing"
    /\ lastEvent' = [kind |-> "playing"]
    /\ UNCHANGED <<objectUrls, audioSrc, onended>>
    /\ UNCHANGED <<connVars, appVars, nFrames, writes, openCalls, closesSinceOpen, delayLog>>

\* A catch of the rejected play() that also resets the assistant state.
PlayFailsResetsState ==
    /\ playback = "starting"
    /\ playback' = "failed"
    /\ currentState' = "idle"
    /\ lastEvent' = [kind |-> "playError"]
    /\ UNCHANGED <<objectUrls, audioSrc, onended>>
    /\ UNCHANGED <<spotifyConnected, statusText, transcriptVisible, orbScaleE4,
                   conversationHistory, historyList, userText, neonText,
                   nowPlaying, trackName, progressFill, errorTimers>>
    /\ UNCHANGED <<connVars, nFrames, writes, openCalls, closesSinceOpen, delayLog>>

\* The promise of audioPlayer.play() rejects: the catch logs it.
PlayFails ==
    /\ playback = "starting"
    /\ playback' = "failed"
    /\ lastEvent' = [kind |-> "playError"]
    /\ UNCHANGED <<objectUrls, audioSrc, onended>>
    /\ UNCHANGED <<connVars, appVars, nFrames, writes, openCalls, closesSinceOpen, delayLog>>

\* The clip plays to its end: the installed onended handler revokes its url.
PlaybackEnded ==
    /\ playback = "playing"
    /\ playback' = "ended"
    /\ objectUrls' = [objectUrls EXCEPT ![onended].revoked = TRUE]
    /\ lastEvent' = [kind |-> "ended"]
    /\ UNCHANGED <<audioSrc, onended>>
    /\ UNCHANGED <<connVars, appVars, nFrames, writes, openCalls, closesSinceOpen, delayLog>>

\* Calls of connectWebSocket from outside the program in a run of OpenCallSpec.
MaxOpenCalls == 1

\* connectWebSocket() called while the page runs, by a caller other than
\* init and the reconnect timers (the function is a global of the page).
OpenCall ==
    /\ lastEvent.kind # "load"
    /\ openCalls < MaxOpenCalls
    /\ connectWebSocket
    /\ lastEvent' = [kind |-> "openCall", readyState |-> ReadyState]
    /\ openCalls' = openCalls + 1
    /\ UNCHANGED <<reconnectAttempts, connected, connectionStatus, reconnectTimers>>
    /\ UNCHANGED <<appVars, audioVars, nFrames, writes, closesSinceOpen, delayLog>>

\* ------------------------------------------------------------ specification

\* The module has been evaluated and init() has not run yet.
Init ==
    /\ ws = 0
    /\ sockets = [i \in Slots |-> "FREE"]
    /\ reconnectAttempts = 0
    /\ connected = FALSE
    /\ connectionStatus = "initial"
    /\ reconnectTimers = <<>>
    /\ spotifyConnected = FALSE
    /\ currentState = "idle"
    /\ statusText = "initial"
    /\ transcriptVisible = FALSE
    /\ orbScaleE4 = 10000
    /\ conversationHistory = <<>>
    /\ historyList = <<>>
    /\ userText = Null
    /\ neonText = Null
    /\ nowPlaying = NullData
    /\ trackName = "initial"
    /\ progressFill = <<0, 0>>
    /\ errorTimers = 0
    /\ objectUrls = <<>>
    /\ audioSrc = 0
    /\ onended = 0
    /\ playback = "none"
    /\ lastEvent = [kind |-> "load"]
    /\ nFrames = 0
    /\ writes = 0
    /\ openCalls = 0
    /\ closesSinceOpen = 0
    /\ delayLog = <<>>

Next ==
    \/ InitApp
    \/ TransportOpen
    \/ TransportClosing
    \/ TransportClose
    \/ TransportError
    \/ ReconnectTimerFires
    \/ SendMessage
    \/ DeliverFrame
    \/ ErrorTimerFires
    \/ PlayStarts
    \/ PlayFails
    \/ PlaybackEnded

Spec == Init /\ [][Next]_vars


\* A session: the state after init() and the open event of the first socket,
\* and from there everything but connection events.
SessionInit ==
    /\ ws = 1
    /\ sockets = [i \in Slots |-> IF i = 1 THEN "OPEN" ELSE "FREE"]
    /\ reconnectAttempts = 0
    /\ connected = TRUE
    /\ connectionStatus = "Connected"
    /\ reconnectTimers = <<>>
    /\ spotifyConnected = FALSE
    /\ currentState = "idle"
    /\ statusText = "initial"
    /\ transcriptVisible = FALSE
    /\ orbScaleE4 = 10000
    /\ conversationHistory = <<>>
    /\ historyList = <<>>
    /\ userText = Null
    /\ neonText = Null
    /\ nowPlaying = NullData
    /\ trackName = "initial"
    /\ progressFill = <<0, 0>>
    /\ errorTimers = 0
    /\ objectUrls = <<>>
    /\ audioSrc = 0
    /\ onended = 0
    /\ playback = "none"
    /\ lastEvent = [kind |-> "open", after |-> 0]
    /\ nFrames = 0
    /\ writes = 0
    /\ openCalls = 0
    /\ closesSinceOpen = 0
    /\ delayLog = <<>>

SessionNext ==
    \/ SessionFrame
    \/ ErrorTimerFires
    \/ PlayStarts
    \/ PlayFails
    \/ PlaybackEnded
    \/ SendMessage

SessionSpec == SessionInit /\ [][SessionNext]_vars


\* ------------------------------------------------- connection, called twice

OpenCallNext ==
    \/ InitApp
    \/ TransportOpen
    \/ TransportClosing
    \/ TransportClose
    \/ TransportError
    \/ ReconnectTimerFires
    \/ OpenCall

\* The connection manager with calls of connectWebSocket from outside.
OpenCallSpec == Init /\ [][OpenCallNext]_vars

\* ------------------------------------------------- connection, timers fair

LiveNext ==
    \/ InitApp
    \/ TransportOpen
    \/ TransportClosing
    \/ TransportClose
    \/ TransportError
    \/ ReconnectTimerFires
    \/ SendMessage

\* The connection manager and the user's sends; a pending setTimeout fires
\* in the end.
LiveSpec == Init /\ [][LiveNext]_vars /\ WF_vars(ReconnectTimerFires)

\* ------------------------------------------------- display: progress, level

\* Frames delivered in a run of DisplaySpec.
MaxDisplayFrames == 2

\* Tracks at the end and at the start of their duration.
TrackFull == [isNull |-> FALSE, is_podcast |-> FALSE, track_name |-> "Song",
              episode_name |-> "", progress_ms |-> 180000, duration_ms |-> 180000]
TrackStart == [isNull |-> FALSE, is_podcast |-> TRUE, track_name |-> "",
               episode_name |-> "Episode", progress_ms |-> 0, duration_ms |-> 180000]

\* The levels the server reports: numbers from 0 up, here around the level
\* 1500 where the scale reaches its cap.
DisplayLevels == {0, 1000, 1499, 1500, 2000}

DisplayMessages ==
    {[type |-> "spotify", data |-> d] :
        d \in {NullData, TrackA, TrackB, TrackFull, TrackStart}}
    \cup {[type |-> "state_update", state |-> s, data |-> NoData] :
             s \in StatesSent}
    \cup {[type |-> "state_update", state |-> s, data |-> LevelData(n)] :
             s \in StatesSent, n \in DisplayLevels}
    \cup {[type |-> "error", message |-> "boom"]}

DisplayFrames == {[wellFormed |-> TRUE, message |-> m] : m \in DisplayMessages}

DisplayFrame == DeliverFrom(DisplayFrames, MaxDisplayFrames)

DisplayNext ==
    \/ DisplayFrame
    \/ ErrorTimerFires

\* An open connection that receives spotify, state_update and error frames.
DisplaySpec == SessionInit /\ [][DisplayNext]_vars

\* ------------------------------------------------------------ audio clips

\* Audio frames delivered in a run of AudioSpec.
MaxAudioFrames == 2

\* The two lower-case hex digits of a byte, high nibble first.
HexOfByte(b) == <<HexDigits[(b \div 16) + 1], HexDigits[(b % 16) + 1]>>

\* The server's encoding of a clip: the digits of its bytes, in order.
RECURSIVE EncodeHex(_)
EncodeHex(bytes) ==
    IF Len(bytes) = 0 THEN <<>>
    ELSE HexOfByte(Head(bytes)) \o EncodeHex(Tail(bytes))

\* Clips the server sends: no byte, one byte (with and without a leading 0
\* digit), several bytes; <<77, 80, 51>> is encoded as "4d5033".
ByteSeqs == { <<>>, <<0>>, <<10>>, <<255>>, <<0, 0>>, <<1, 16>>, <<171, 205>>,
              <<77, 80, 51>> }

\* Payloads that are no encoding of a clip: "zz4d", "4dzz", "4d5".
BadPayloads == { <<"z", "z", "4", "d">>, <<"4", "d", "z", "z">>,
                 <<"4", "d", "5">> }

AudioFrames ==
    {[wellFormed |-> TRUE, message |-> [type |-> "audio", data |-> h]] :
        h \in {EncodeHex(b) : b \in ByteSeqs} \cup BadPayloads}

AudioFrame == DeliverFrom(AudioFrames, MaxAudioFrames)

AudioNext ==
    \/ AudioFrame
    \/ PlayStarts
    \/ PlayFails
    \/ PlaybackEnded

\* An open connection that receives audio frames, and the player's events.
AudioSpec == SessionInit /\ [][AudioNext]_vars

\* ------------------------------------------------------- a long conversation

\* Frames delivered in a run of HistorySpec: one turn more than the view shows.
MaxHistoryFrames == 11

HistoryMessages ==
    {[type |-> "transcript", text |-> t, is_final |-> TRUE] : t \in Texts}
    \cup {[type |-> "transcript", text |-> "Hello", is_final |-> FALSE]}
    \cup {[type |-> "response", text |-> "Hi there"]}

HistoryFrames == {[wellFormed |-> TRUE, message |-> m] : m \in HistoryMessages}

HistoryFrame == DeliverFrom(HistoryFrames, MaxHistoryFrames)

\* An open connection that receives transcript and response frames.
HistorySpec == SessionInit /\ [][HistoryFrame]_vars

\* ------------------------------------------------------------------ claims

\* The delays the specification lists for the 1st to the 10th failure.
ExpectedDelays ==
    <<2000, 4000, 8000, 16000, 30000, 30000, 30000, 30000, 30000, 30000>>

\* C1: the n-th consecutive close event without an open event in between
\* (n = 1..10) schedules a reconnect with delay min(1000 * 2^n, 30000) ms,
\* that is 2000, 4000, 8000, 16000 and then 30000, and the delays scheduled
\* since the last open event never decrease.
C1_BackoffDelays ==
    closesSinceOpen \in 1..10 =>
        /\ Len(delayLog) = closesSinceOpen
        /\ \A n \in 1..Len(delayLog) :
              /\ delayLog[n] = ExpectedDelays[n]
              /\ delayLog[n] = Min(1000 * (2 ^ n), 30000)
        /\ \A n \in 1..(Len(delayLog) - 1) : delayLog[n] <= delayLog[n + 1]
        /\ lastEvent.kind = "close" =>
              /\ lastEvent.delay = ExpectedDelays[closesSinceOpen]
              /\ reconnectTimers = <<lastEvent.delay>>

\* The 10th consecutive failure has scheduled the 10th reconnect.
C1_Witness ==
    /\ closesSinceOpen = 10
    /\ lastEvent.kind = "close"
    /\ delayLog = ExpectedDelays

\* Ten reconnects were scheduled without an open event and the attempt after
\* the last one has closed too.
Exhausted == closesSinceOpen > maxReconnectAttempts

AllSocketsClosed == \A i \in Slots : sockets[i] \in {"FREE", "CLOSED"}

\* C2: once 10 reconnects have been scheduled without an open event, the next
\* close event schedules nothing, and from then on no timer is pending, no
\* socket is created, the client stays disconnected, for ever.
C2_NoEleventhAttempt ==
    [][ /\ Exhausted' => /\ reconnectTimers' = <<>>
                         /\ AllSocketsClosed'
                         /\ ~connected'
                         /\ Len(delayLog') = maxReconnectAttempts
        /\ Exhausted => /\ Exhausted'
                        /\ sockets' = sockets
                        /\ ws' = ws ]_vars

\* The 11th consecutive close event has happened and scheduled nothing.
C2_Witness ==
    /\ Exhausted
    /\ lastEvent.kind = "close"
    /\ lastEvent.delay = 0
    /\ reconnectAttempts = maxReconnectAttempts

\* C3: every open event sets state.connected and resets the counter to 0,
\* and the first close event after an open event schedules a reconnect after
\* 2000 ms, whatever the number of failures before that open event.
C3_OpenResets ==
    [][ /\ lastEvent'.kind = "open" =>
              /\ connected'
              /\ reconnectAttempts' = 0
        /\ (lastEvent'.kind = "close" /\ lastEvent.kind = "open") =>
              /\ lastEvent'.delay = 2000
              /\ reconnectTimers' = Append(reconnectTimers, 2000)
              /\ reconnectAttempts' = 1
        /\ (lastEvent'.kind = "close" /\ closesSinceOpen = 0) =>
              lastEvent'.delay = 2000 ]_vars

\* A connection that opened after 10 failed attempts has closed, and the
\* reconnect waits 2000 ms.
C3_Witness ==
    /\ lastEvent.kind = "close"
    /\ lastEvent.openedAfter = 10
    /\ lastEvent.delay = 2000
    /\ reconnectAttempts = 1

\* A reconnect has been scheduled in this step.
Scheduled == Len(reconnectTimers') > Len(reconnectTimers)

\* C4: the counter is always an integer from 0 to 10; scheduling a reconnect
\* increments it by exactly one, and it changes in no other way but the reset
\* to 0 of an open event.
C4_CounterBounded ==
    /\ [](reconnectAttempts \in 0..maxReconnectAttempts)
    /\ [][ /\ Scheduled => /\ reconnectAttempts' = reconnectAttempts + 1
                           /\ Len(reconnectTimers') = Len(reconnectTimers) + 1
           /\ reconnectAttempts' # reconnectAttempts =>
                 \/ Scheduled
                 \/ lastEvent'.kind = "open" /\ reconnectAttempts' = 0 ]_vars

\* The counter has reached its bound with the 10th reconnect pending.
C4_Witness ==
    /\ reconnectAttempts = maxReconnectAttempts
    /\ Len(reconnectTimers) = 1
    /\ lastEvent.kind = "close"


\* The last event delivered a well-formed message of type t.
Delivered(t) ==
    /\ lastEvent.kind = "message"
    /\ lastEvent.frame.wellFormed
    /\ lastEvent.frame.message.type = t

\* C5: sendMessage writes to the transport exactly once when the socket is
\* OPEN and not at all otherwise (no socket, CONNECTING, CLOSING, CLOSED);
\* nothing is queued: no step but a send in the OPEN state writes, so a
\* dropped payload is never written later, not after a reconnect either.
C5_SendOnlyWhenOpen ==
    [][ /\ lastEvent'.kind = "send" =>
              writes' = writes + (IF lastEvent'.readyState = "OPEN" THEN 1 ELSE 0)
        /\ lastEvent'.kind = "send" => lastEvent'.readyState = ReadyState
        /\ lastEvent'.kind # "send" => writes' = writes ]_vars

\* A send was dropped on a closed socket, with a reconnect pending, and
\* nothing has been written.
C5_Witness ==
    /\ lastEvent.kind = "send"
    /\ lastEvent.readyState = "CLOSED"
    /\ reconnectTimers # <<>>
    /\ writes = 0

\* C6: a well-formed frame whose type is none of the seven known types changes
\* no application state (assistant state, conversation log, now playing,
\* Spotify flag, pending timers, playback) and no connection state.
C6_UnknownTypeIgnored ==
    [][ ( /\ lastEvent'.kind = "message"
          /\ lastEvent'.frame.wellFormed
          /\ lastEvent'.frame.message.type \notin KnownTypes )
        => UNCHANGED <<connVars, appVars, audioVars, writes>> ]_vars

\* A frame of an unknown type came right after a state_update and the
\* assistant state is still the one that state_update set.
C6_Witness ==
    /\ Delivered("future_feature")
    /\ lastEvent.prev = "state_update"
    /\ currentState = "speaking"
    /\ ReadyState = "OPEN"

\* C7: a frame JSON.parse throws on changes no application state, leaves the
\* socket open and the counter as it was, and the frames after it are
\* dispatched as usual: a state_update that follows it sets the state.
C7_MalformedDiscarded ==
    [][ /\ (lastEvent'.kind = "message" /\ ~lastEvent'.frame.wellFormed)
           => /\ UNCHANGED <<connVars, appVars, audioVars, writes>>
              /\ \E i \in Slots : sockets'[i] = "OPEN"
        /\ ( /\ lastEvent'.kind = "message"
             /\ lastEvent'.prev = "<malformed>"
             /\ lastEvent'.frame.wellFormed
             /\ lastEvent'.frame.message.type = "state_update" )
           => currentState' = lastEvent'.frame.message.state ]_vars

\* A state_update was dispatched right after a malformed frame.
C7_Witness ==
    /\ Delivered("state_update")
    /\ lastEvent.prev = "<malformed>"
    /\ currentState = "thinking"
    /\ connected
    /\ reconnectAttempts = 0

\* C8: the timer of an error message sets the assistant state to idle when it
\* fires; a state_update that comes while the timer is pending sets the state
\* to its own value and cancels nothing, so the timer still fires later and
\* overwrites that value: a pending timer goes away only by firing.
C8_ErrorTimerWins ==
    [][ /\ lastEvent'.kind = "errorTimer" =>
              /\ currentState' = "idle"
              /\ errorTimers' = errorTimers - 1
        /\ ( /\ lastEvent'.kind = "message"
             /\ lastEvent'.frame.wellFormed
             /\ lastEvent'.frame.message.type = "state_update" ) =>
              /\ currentState' = lastEvent'.frame.message.state
              /\ errorTimers' = errorTimers
        /\ ( /\ lastEvent'.kind = "message"
             /\ lastEvent'.frame.wellFormed
             /\ lastEvent'.frame.message.type = "error" ) =>
              /\ errorTimers' = errorTimers + 1
              /\ currentState' = currentState
        /\ errorTimers' < errorTimers => lastEvent'.kind = "errorTimer" ]_vars

\* The timer fired right after a state_update had set the state to listening,
\* and the state is idle.
C8_Witness ==
    /\ lastEvent.kind = "errorTimer"
    /\ lastEvent.prev = "state_update"
    /\ lastEvent.overwrote = "listening"
    /\ currentState = "idle"
    /\ errorTimers = 0

\* C9: a transcript message with is_final true appends exactly one turn
\* {user: text, response: null} at the tail of the log; with is_final false it
\* writes the live transcript view only and leaves the log as it was.
C9_FinalTranscriptAppends ==
    [][ ( /\ lastEvent'.kind = "message"
          /\ lastEvent'.frame.wellFormed
          /\ lastEvent'.frame.message.type = "transcript" )
        => /\ userText' = lastEvent'.frame.message.text
           /\ IF lastEvent'.frame.message.is_final
                 THEN conversationHistory' =
                         Append(conversationHistory,
                                [user |-> lastEvent'.frame.message.text,
                                 response |-> Null])
                 ELSE UNCHANGED <<conversationHistory, historyList,
                                  spotifyConnected, currentState, statusText,
                                  orbScaleE4, neonText, nowPlaying, trackName,
                                  progressFill, errorTimers, audioVars>> ]_vars

\* A final transcript was appended behind an earlier turn.
C9_Witness ==
    /\ Delivered("transcript")
    /\ lastEvent.frame.message.is_final
    /\ Len(conversationHistory) = 2
    /\ conversationHistory[2] = [user |-> lastEvent.frame.message.text,
                                 response |-> Null]

\* C10: a response message never changes the length of the log; on a log
\* that is not empty it sets the response of the last turn and nothing else
\* (a second response overwrites the same turn, earlier turns stay); on an
\* empty log it is dropped, so a later final transcript starts a turn with
\* response null.
C10_ResponseMutatesTail ==
    [][ /\ ( /\ lastEvent'.kind = "message"
             /\ lastEvent'.frame.wellFormed
             /\ lastEvent'.frame.message.type = "response" )
           => /\ Len(conversationHistory') = Len(conversationHistory)
              /\ \A k \in 1..Len(conversationHistory) :
                    /\ conversationHistory'[k].user = conversationHistory[k].user
                    /\ conversationHistory'[k].response =
                          IF k = Len(conversationHistory)
                             THEN lastEvent'.frame.message.text
                             ELSE conversationHistory[k].response
        /\ ( /\ lastEvent'.kind = "message"
             /\ lastEvent'.frame.wellFormed
             /\ lastEvent'.frame.message.type = "transcript"
             /\ lastEvent'.frame.message.is_final )
           => conversationHistory'[Len(conversationHistory')].response = Null ]_vars

\* A second response has overwritten the response of the only turn.
C10_Witness ==
    /\ Delivered("response")
    /\ lastEvent.prev = "response"
    /\ Len(conversationHistory) = 1
    /\ conversationHistory[1] = [user |-> "Hello", response |-> "Hi there"]
    /\ neonText = "Hi there"

\* C11: after every spotify message state.nowPlaying equals the message's
\* data: data that is not null replaces the snapshot and null clears it.
C11_SnapshotEqualsData ==
    [][ ( /\ lastEvent'.kind = "message"
          /\ lastEvent'.frame.wellFormed
          /\ lastEvent'.frame.message.type = "spotify" )
        => nowPlaying' = lastEvent'.frame.message.data ]_vars

\* The last event delivered a spotify message whose data is a track.
DeliveredTrack ==
    /\ Delivered("spotify")
    /\ ~lastEvent.frame.message.data.isNull

\* C12: a spotify message with duration_ms > 0 sets the progress width to
\* progress_ms / duration_ms * 100 percent (25 for 50000 of 200000), which is
\* from 0 to 100 as 0 <= progress_ms <= duration_ms; with duration_ms = 0 no
\* percentage is computed and the width stays as it was.
C12_ProgressPercent ==
    [][ DeliveredTrack' =>
          IF lastEvent'.frame.message.data.duration_ms > 0
             THEN /\ progressFill'[2] = lastEvent'.frame.message.data.duration_ms
                  /\ progressFill'[1]
                        = lastEvent'.frame.message.data.progress_ms * 100
                  /\ 0 <= progressFill'[1]
                  /\ progressFill'[1] <= 100 * progressFill'[2]
                  /\ lastEvent'.frame.message.data = TrackA
                        => progressFill'[1] = 25 * progressFill'[2]
             ELSE progressFill' = progressFill ]_vars

\* A track of duration 0 came after one at 25 percent: the width is still 25.
C12_Witness ==
    /\ DeliveredTrack
    /\ lastEvent.frame.message.data.duration_ms = 0
    /\ lastEvent.prev = "spotify"
    /\ progressFill[2] > 0
    /\ progressFill[1] = 25 * progressFill[2]

\* The last event delivered an audio message.
DeliveredAudio == Delivered("audio")

\* C13: for every byte sequence, decoding its encoding of two hex digits per
\* byte, high nibble first, yields the bytes in order: the decode of an
\* encoded clip does not throw and the blob holds the clip's bytes.
C13_DecodeRoundTrip ==
    [][ DeliveredAudio' =>
          \A b \in ByteSeqs :
              lastEvent'.frame.message.data = EncodeHex(b)
                 => /\ ~DecodeThrows(EncodeHex(b))
                    /\ DecodeHex(EncodeHex(b)) = b
                    /\ objectUrls' = Append(objectUrls,
                                            [bytes |-> b, revoked |-> FALSE]) ]_vars

\* Some pair of the payload holds a character that is no hex digit.
HasMalformedPair(hex) ==
    \E k \in 1..Len(Chunks(hex)) :
        \E j \in 1..Len(Chunks(hex)[k]) : ~IsHex(Chunks(hex)[k][j])

\* C14: an audio message whose payload has a malformed pair is a decode
\* failure: no blob is made, no playback starts and the source is kept.
C14_MalformedPairAbandoned ==
    [][ ( /\ DeliveredAudio'
          /\ HasMalformedPair(lastEvent'.frame.message.data) )
        => UNCHANGED <<objectUrls, audioSrc, playback, onended>> ]_vars

\* C16: once playback has ended every object URL made for a clip has been
\* revoked, also those of clips that a later audio message preempted.
C16_AllUrlsReleased ==
    playback = "ended" =>
        \A k \in 1..Len(objectUrls) : objectUrls[k].revoked

\* C15: a call of connectWebSocket while the socket is CONNECTING or OPEN is
\* rejected: no socket is created and ws, the sockets and the attempt
\* counter are as before.
C15_SecondOpenRejected ==
    [][ ( /\ lastEvent'.kind = "openCall"
          /\ lastEvent'.readyState \in {"CONNECTING", "OPEN"} )
        => UNCHANGED <<ws, sockets, reconnectAttempts>> ]_vars

\* C17: the assistant state changes in two ways only: a state_update message
\* sets it to the message's state and the firing of an error timer sets it to
\* idle; no other message, no connection event, no send and no playback
\* event changes it.
C17_StateChangesOnlyByUpdateOrTimer ==
    [][ /\ Delivered("state_update")'
           => currentState' = lastEvent'.frame.message.state
        /\ lastEvent'.kind = "errorTimer" => currentState' = "idle"
        /\ ~Delivered("state_update")' /\ lastEvent'.kind # "errorTimer"
           => currentState' = currentState ]_vars

\* The play() of a clip was rejected while the state a state_update had set
\* was speaking, and the state is still speaking.
C17_Witness ==
    /\ lastEvent.kind = "playError"
    /\ playback = "failed"
    /\ currentState = "speaking"

LogKeepsTurns ==
    /\ Len(conversationHistory') >= Len(conversationHistory)
    /\ \A k \in 1..Len(conversationHistory) :
          conversationHistory'[k].user = conversationHistory[k].user

\* C19, as stated: the rendered view is always the most recent
\* min(10, length) turns of the log in insertion order (oldest of them
\* first), and the log never loses or reorders a turn.
C19_ViewInInsertionOrder ==
    [][ /\ historyList' = LastN(conversationHistory', HistoryShown)
        /\ LogKeepsTurns ]_vars

\* C19, amended: the rendered view is always the most recent
\* min(10, length) turns of the log, newest first: its j-th entry is the
\* j-th turn from the tail of the log; the log never loses or reorders a turn.
C19_ViewNewestFirst ==
    [][ /\ Len(historyList') = Min(HistoryShown, Len(conversationHistory'))
        /\ \A j \in 1..Len(historyList') :
              historyList'[j] =
                 conversationHistory'[Len(conversationHistory') + 1 - j]
        /\ LogKeepsTurns ]_vars

\* Eleven turns are in the log and ten in the view: the newest turn is first,
\* the second turn of the log is last and the first one is not shown.
C19_Witness ==
    /\ Len(conversationHistory) = HistoryShown + 1
    /\ Len(historyList) = HistoryShown
    /\ historyList[1] = conversationHistory[HistoryShown + 1]
    /\ historyList[HistoryShown] = conversationHistory[2]
    /\ conversationHistory[1].user # conversationHistory[2].user
    /\ historyList[1].user # historyList[2].user

\* clamp(x, lo, hi)
Clamp(x, lo, hi) == IF x < lo THEN lo ELSE IF x > hi THEN hi ELSE x

\* C20: a state_update carrying a level sets the scale to
\* clamp(1 + level/1000*0.2, 1, 1.3), in 1/10000: never below 1, never
\* above 1.3, and 1.3 for every level >= 1500; a state_update without a
\* level leaves the scale as it was.
C20_ScaleClamped ==
    [][ Delivered("state_update")' =>
          IF lastEvent'.frame.message.data.hasLevel
             THEN /\ orbScaleE4' =
                        Clamp(10000 + (lastEvent'.frame.message.data.level * 2000)
                                         \div 1000,
                              10000, 13000)
                  /\ orbScaleE4' >= 10000
                  /\ orbScaleE4' <= 13000
                  /\ lastEvent'.frame.message.data.level >= 1500
                        => orbScaleE4' = 13000
             ELSE orbScaleE4' = orbScaleE4 ]_vars

\* A state_update without a level came after one with level 1499: the scale
\* is still 1.2998, just under the cap.
C20_Witness ==
    /\ Delivered("state_update")
    /\ ~lastEvent.frame.message.data.hasLevel
    /\ lastEvent.prev = "state_update"
    /\ orbScaleE4 = 12998

\* The last step was a close event that found the counter below its bound.
ClosedBelowBound ==
    /\ lastEvent'.kind = "close"
    /\ reconnectAttempts < maxReconnectAttempts

\* C21, as stated: on a close event with the counter at k < 10 the reconnect
\* is scheduled with delay min(1000 * 2^k, 30000) ms, computed from k before
\* the increment, and the counter becomes k + 1: 1000 ms after an open event.
C21_DelayFromOldCounter ==
    [][ ClosedBelowBound =>
          /\ reconnectAttempts' = reconnectAttempts + 1
          /\ reconnectTimers' =
                Append(reconnectTimers,
                       Min(1000 * (2 ^ reconnectAttempts), 30000))
          /\ lastEvent.kind = "open" =>
                reconnectTimers'[Len(reconnectTimers')] = 1000 ]_vars

\* C21, amended: on a close event with the counter at k < 10 the counter
\* becomes k + 1 first and the reconnect is scheduled with delay
\* min(1000 * 2^(k+1), 30000) ms, computed from the incremented counter:
\* 2000 ms after an open event.
C21_DelayFromNewCounter ==
    [][ ClosedBelowBound =>
          /\ reconnectAttempts' = reconnectAttempts + 1
          /\ reconnectTimers' =
                Append(reconnectTimers,
                       Min(1000 * (2 ^ reconnectAttempts'), 30000))
          /\ lastEvent.kind = "open" =>
                reconnectTimers'[Len(reconnectTimers')] = 2000 ]_vars

\* The close event that found the counter at 4 has scheduled the capped
\* delay 30000 (from 2^5), after the 16000 of the close event before it.
C21_Witness ==
    /\ lastEvent.kind = "close"
    /\ reconnectAttempts = 5
    /\ lastEvent.delay = 30000
    /\ Len(delayLog) = 5
    /\ delayLog[4] = 16000

\* C22: a transport-error event schedules no reconnect and changes neither
\* the connected flag nor the counter nor the socket nor any application
\* state; a reconnect is scheduled by a close event only.
C22_ErrorSchedulesNothing ==
    [][ /\ lastEvent'.kind = "error" =>
              /\ UNCHANGED <<reconnectTimers, connected, reconnectAttempts,
                             connectionStatus, ws, sockets>>
              /\ UNCHANGED <<appVars, audioVars>>
        /\ Len(reconnectTimers') > Len(reconnectTimers) =>
              lastEvent'.kind = "close" ]_vars

\* The third retry reported an error: it is still connecting, the counter is
\* 3 and no timer is pending.
C22_Witness ==
    /\ lastEvent.kind = "error"
    /\ reconnectAttempts = 3
    /\ ws # 0
    /\ ReadyState = "CONNECTING"
    /\ reconnectTimers = <<>>
    /\ ~connected

\* The events of the connection: the open, close and error events of a
\* socket, the start of a closing handshake and a reconnect timer that fires.
ConnectionEvents == {"open", "close", "error", "closing", "reconnect"}

\* C23: the connection events leave the assistant state, the NowPlaying
\* snapshot, the Spotify flag and the conversation log as they were, and the
\* dispatch of an inbound message leaves the connected flag, the socket and
\* the attempt counter as they were.
C23_ConnectionAndDispatchApart ==
    [][ /\ lastEvent'.kind \in ConnectionEvents =>
              UNCHANGED <<currentState, nowPlaying, spotifyConnected,
                          conversationHistory>>
        /\ lastEvent'.kind = "message" =>
              UNCHANGED <<connected, ws, sockets, reconnectAttempts>> ]_vars

\* The connection was lost and opened again: the state speaking and the
\* track received before the loss are still there.
C23_Witness ==
    /\ lastEvent.kind = "open"
    /\ lastEvent.after = 1
    /\ currentState = "speaking"
    /\ nowPlaying = TrackA

\* The sockets that have not closed yet.
LiveSockets == {i \in Slots : sockets[i] \in {"CONNECTING", "OPEN", "CLOSING"}}

\* C24: with connectWebSocket called by init and by the reconnect timers
\* only, the sockets that have not closed and the pending reconnect timers
\* are at most one altogether: never two live connections, never two
\* pending timers.
C24_OneSocketOrTimer ==
    /\ Cardinality(LiveSockets) + Len(reconnectTimers) <= 1
    /\ Cardinality(LiveSockets) <= 1
    /\ Len(reconnectTimers) <= 1

\* The second reconnect is pending after two failures: one timer, no socket.
C24_Witness ==
    /\ lastEvent.kind = "close"
    /\ reconnectAttempts = 2
    /\ Len(reconnectTimers) = 1
    /\ LiveSockets = {}

\* A connection attempt comes to its end: the socket that is CONNECTING
\* opens or closes.
AttemptResolves ==
    /\ TransportOpen \/ TransportClose
    /\ \E i \in Slots : sockets[i] = "CONNECTING" /\ sockets'[i] # "CONNECTING"

\* A new connection attempt is under way or has come to its end since.
Attempting == \E i \in Slots : sockets[i] = "CONNECTING"

\* C25: with timers that fire, every close event that found the counter
\* below 10 is followed by a new connection attempt; and when every attempt
\* opens or closes in the end and the ten attempts after a loss do not all
\* fail, every close event is followed by a state where the client is
\* connected and the counter is 0.
C25_ReconnectsEventually ==
    /\ (lastEvent.kind = "close" /\ lastEvent.delay # 0) ~> Attempting
    /\ ( /\ WF_vars(AttemptResolves)
         /\ [](~Exhausted) )
       => ( (lastEvent.kind = "close")
               ~> (connected /\ reconnectAttempts = 0) )

\* The fourth attempt after a loss has opened: connected, counter 0.
C25_Witness ==
    /\ lastEvent.kind = "open"
    /\ lastEvent.after = 4
    /\ connected
    /\ reconnectAttempts = 0
    /\ reconnectTimers = <<>>

====
